---- MODULE Spec2Model ----
(***************************************************************************)
(* Model of symbolic_pymc/etuple.py: KwdPair, ExpressionTuple (lazy,       *)
(* cached eval_obj; slicing that records orig_expr; + and reflected + with *)
(* the identity short-circuit), etuple() and etuplize().                   *)
(*                                                                         *)
(* Python objects are values [tag, n, name, val]; two values are the same  *)
(* object (Python "is") iff they are equal as TLA+ values.  ExpressionTuple*)
(* objects live in heap (a sequence; the index is the object's identity).  *)
(* invoked counts, per tuple, how often its operator was entered; every   *)
(* invocation that returns is appended to calls, and the object returned   *)
(* by the k-th of them is Obj(k), so two invocations never return the same *)
(* object.                                                                 *)
(***************************************************************************)
EXTENDS Integers, Sequences, FiniteSets, TLC

\* Bounds of the exploration.
MaxHeap == 3      \* ExpressionTuple objects alive
MaxRaises == 1    \* operator invocations that raise

VARIABLES heap,   \* ExpressionTuple objects: [elems, ev, orig]
          made,   \* history: how each heap object was created
          invoked, \* history: per object, how often its operator was entered
          calls,  \* history: the operator invocations that returned, in order
          last,   \* history: the last operation and what it returned/raised
          pc,     \* per thread: position inside eval_obj
          tget,   \* per thread: the ExpressionTuple whose eval_obj is read
          tval    \* per thread: the local _eval_obj / returned value

vars == <<heap, made, invoked, calls, last, pc, tget, tval>>

----------------------------------------------------------------------------
\* Values

Val(t, k, s, v) == [tag |-> t, n |-> k, name |-> s, val |-> v]

\* ExpressionTuple.null, the "unset" sentinel (etuple.py:44)
Null == Val("null", 0, "", <<>>)
None == Val("none", 0, "", <<>>)
Leaf(k) == Val("leaf", k, "", <<>>)
OpV(s) == Val("op", 0, s, <<>>)
Ref(i) == Val("et", i, "", <<>>)
Obj(k) == Val("obj", k, "", <<>>)
Host(h) == Val("host", h, "", <<>>)
DefaultOf(s) == Val("dflt", 0, s, <<>>)

\* KwdPair.__new__: the pair (arg, value)
KwdPair(s, v) == Val("kwd", 0, s, <<v>>)

IsKwdPair(v) == v.tag = "kwd"
IsET(v) == v.tag = "et"
Callable(v) == v.tag = "op"

Min(a, b) == IF a < b THEN a ELSE b

----------------------------------------------------------------------------
\* The operators (callables) that appear as element 0 of a tuple.
\*   "f": def f(a, kw=<default>)       inspectable
\*   "v": def v(*args, **kwargs)       inspectable
\*   "g": a builtin without a signature (inspect.signature raises ValueError),
\*        taking any number of positional arguments
Ops == {"f", "v", "g"}

Inspectable(s) == s \in {"f", "v"}

Signature(s) ==
  IF s = "f" THEN [params |-> <<"a", "kw">>, ndef |-> 1, varargs |-> FALSE, varkw |-> FALSE]
  ELSE IF s = "v" THEN [params |-> <<>>, ndef |-> 0, varargs |-> TRUE, varkw |-> TRUE]
  ELSE [params |-> <<>>, ndef |-> 0, varargs |-> TRUE, varkw |-> FALSE]

ParamIndex(sig, s) ==
  IF \E j \in 1..Len(sig.params) : sig.params[j] = s
  THEN CHOOSE j \in 1..Len(sig.params) : sig.params[j] = s
  ELSE 0

\* dict(evaled_kwargs): one entry per name, in first-insertion order,
\* holding the value of the last pair with that name.
DictOf(kws) ==
  LET firsts == SelectSeq([j \in 1..Len(kws) |-> j],
                          LAMBDA j : \A m \in 1..(j-1) : kws[m].name # kws[j].name)
      lastOf(s) == CHOOSE j \in 1..Len(kws) :
                     /\ kws[j].name = s
                     /\ \A m \in (j+1)..Len(kws) : kws[m].name # s
  IN [j \in 1..Len(firsts) |-> kws[lastOf(kws[firsts[j]].name)]]

KwNames(kws) == {kws[j].name : j \in 1..Len(kws)}

KwLookup(kws, s) == (CHOOSE j \in 1..Len(kws) : kws[j].name = s)

\* How a call op(*pos, **kw) binds its arguments to the parameters of op:
\* what the operator receives, or TypeError.  kw has distinct names.
PyBind(sig, pos, kw, fill) ==
  LET np == Len(sig.params)
      tooMany == Len(pos) > np /\ ~sig.varargs
      multiple == \E j \in 1..Len(kw) :
                     LET p == ParamIndex(sig, kw[j].name) IN p # 0 /\ p <= Len(pos)
      unexpected == \E j \in 1..Len(kw) :
                     ParamIndex(sig, kw[j].name) = 0 /\ ~sig.varkw
      given(p) == p <= Len(pos) \/ sig.params[p] \in KwNames(kw)
      missing == \E p \in 1..(np - sig.ndef) : ~given(p)
  IN IF tooMany \/ multiple \/ unexpected \/ missing
     THEN [exc |-> "TypeError", bound |-> <<>>, extra |-> <<>>, kwextra |-> <<>>]
     ELSE [exc |-> "",
           bound |-> [p \in 1..np |->
                        IF p <= Len(pos) THEN pos[p]
                        ELSE IF sig.params[p] \in KwNames(kw)
                             THEN kw[KwLookup(kw, sig.params[p])].val[1]
                             ELSE IF fill THEN DefaultOf(sig.params[p]) ELSE Null],
           extra |-> SubSeq(pos, np + 1, Len(pos)),
           kwextra |-> SelectSeq(kw, LAMBDA k : ParamIndex(sig, k.name) = 0)]

\* op_sig.bind(*evaled_args, **dict(evaled_kwargs)); op_args.apply_defaults()
\* (etuple.py:73-74).  bind leaves unsupplied parameters out; apply_defaults
\* fills them with the parameter's default.
SigBind(sig, pos, kwdict) == PyBind(sig, pos, kwdict, FALSE)

ApplyDefaults(sig, ba) ==
  [ba EXCEPT !.bound = [p \in 1..Len(sig.params) |->
                          IF ba.bound[p] = Null THEN DefaultOf(sig.params[p])
                          ELSE ba.bound[p]]]

\* BoundArguments.args / .kwargs: every positional-or-keyword parameter goes
\* positionally, followed by *args; only **kwargs entries go by keyword.
BoundArgs(ba) == ba.bound \o ba.extra
BoundKwargs(ba) == ba.kwextra

----------------------------------------------------------------------------
\* ExpressionTuple objects

\* ExpressionTuple.__new__ (etuple.py:46-50): a new object over the given
\* elements, _eval_obj = null, no orig_expr attribute (orig = 0).
NewET(elems) == [elems |-> elems, ev |-> Null, orig |-> 0]

\* The running state of one call: the heap and call log so far, and the
\* value returned (ret) or the exception raised (exc # "").
St(h, inv, c) == [heap |-> h, inv |-> inv, calls |-> c, ret |-> None, exc |-> ""]
Return(st, v) == [st EXCEPT !.ret = v]
Raise(st, e) == [st EXCEPT !.exc = e, !.ret = None]

\* tuple.__getitem__(slice(lo, hi)) for 0 <= lo, 0 <= hi
PySlice(s, lo, hi) == SubSeq(s, Min(lo, Len(s)) + 1, Min(hi, Len(s)))

\* What an operator does when it is invoked for a tuple: it raises exc when
\* at names that tuple, and returns otherwise.  "AttributeError" is the
\* exception of that class, "OpError" any other exception.
NoFail == [at |-> 0, exc |-> ""]
OperatorExceptions == {"OpError", "AttributeError"}

\* The call op(*pos, **kw) itself.  The operator runs (and is logged) only if
\* the arguments bind to its parameters; it raises when fail names the
\* tuple being evaluated, and otherwise returns a new object.
Invoke(st, i, s, pos, kw, fail) ==
  LET b == PyBind(Signature(s), pos, kw, TRUE)
      entry == [et |-> i, op |-> s,
                recv |-> [bound |-> b.bound, extra |-> b.extra, kwextra |-> b.kwextra]]
      c == Append(st.calls, entry)
      entered == [st EXCEPT !.inv[i] = @ + 1]
  IN IF b.exc # "" THEN Raise(st, b.exc)
     ELSE IF fail.at = i THEN Raise(entered, fail.exc)
     ELSE Return([entered EXCEPT !.calls = c], Obj(Len(c)))

\* etuple.py:63-65: toolz.groupby on isinstance(x, KwdPair)
PosGroup(vals) == SelectSeq(vals, LAMBDA x : ~IsKwdPair(x))
KwdGroup(vals) == SelectSeq(vals, IsKwdPair)

\* A variant that passes the keyword values first.
FallbackArgsKwFirst(vals) ==
  [j \in 1..Len(KwdGroup(vals)) |-> KwdGroup(vals)[j].val[1]] \o PosGroup(vals)

\* etuple.py:71: op(*(evaled_args + [kw[1] for kw in evaled_kwargs]))
FallbackArgs(vals) ==
  PosGroup(vals) \o [j \in 1..Len(KwdGroup(vals)) |-> KwdGroup(vals)[j].val[1]]

\* etuple.py:67-76: call the operator self[0] on the evaluated operands.
Apply(st, i, vals, fail) ==
  LET elems == st.heap[i].elems
      op == elems[1]
      sig == Signature(op.name)
      ba == ApplyDefaults(sig, SigBind(sig, PosGroup(vals), DictOf(KwdGroup(vals))))
  IN IF elems = <<>> THEN Raise(st, "IndexError")
     ELSE IF ~Callable(op) THEN Raise(st, "TypeError")
     ELSE IF ~Inspectable(op.name)
          THEN Invoke(st, i, op.name, FallbackArgs(vals), <<>>, fail)
     ELSE IF SigBind(sig, PosGroup(vals), DictOf(KwdGroup(vals))).exc # ""
          THEN Raise(st, "TypeError")
     ELSE Invoke(st, i, op.name, BoundArgs(ba), BoundKwargs(ba), fail)

\* etuple.py:59: the cache check
Cached(obj) == obj.ev # Null

\* A variant that forgets the result.
StoreNothing(h, i, v) == h

\* etuple.py:80: self._eval_obj = _eval_obj
Store(h, i, v) == [h EXCEPT ![i].ev = v]

\* The default of getattr(v, "eval_obj", v): an AttributeError raised while
\* the property is computed is taken for a missing attribute, and v itself
\* is the value.
GetattrDefault(r, v) ==
  IF r.exc = "AttributeError" THEN [r EXCEPT !.exc = "", !.ret = v] ELSE r

RECURSIVE EvalObj(_, _, _), GetEvalObj(_, _, _), EvalArgs(_, _, _), Compute(_, _, _)

\* getattr(v, "eval_obj", v): ExpressionTuple.eval_obj for a tuple,
\* KwdPair.eval_obj (etuple.py:28-30) for a keyword pair, v otherwise.
GetEvalObj(st, v, fail) ==
  IF IsET(v) THEN GetattrDefault(EvalObj(st, v.n, fail), v)
  ELSE IF IsKwdPair(v)
       THEN LET r == GetEvalObj(st, v.val[1], fail)
            IN GetattrDefault(IF r.exc # "" THEN r ELSE Return(r, KwdPair(v.name, r.ret)), v)
  ELSE Return(st, v)

\* etuple.py:62: [getattr(i, "eval_obj", i) for i in xs], left to right
EvalArgs(st, xs, fail) ==
  IF xs = <<>> THEN [st |-> st, vals |-> <<>>]
  ELSE LET r == GetEvalObj(st, Head(xs), fail)
       IN IF r.exc # "" THEN [st |-> r, vals |-> <<>>]
          ELSE LET rest == EvalArgs(r, Tail(xs), fail)
               IN [st |-> rest.st, vals |-> <<r.ret>> \o rest.vals]

\* etuple.py:62-76: the uncached branch up to the operator's return
Compute(st, i, fail) ==
  LET a == EvalArgs(st, PySlice(st.heap[i].elems, 1, Len(st.heap[i].elems)), fail)
  IN IF a.st.exc # "" THEN a.st ELSE Apply(a.st, i, a.vals, fail)

\* etuple.py:76-81: an exception of the evaluation propagates past the
\* store; otherwise the result is stored and the attribute is returned.
Finish(r, i) ==
  IF r.exc # "" THEN r
  ELSE LET h == Store(r.heap, i, r.ret)
       IN Return([r EXCEPT !.heap = h], h[i].ev)

\* ExpressionTuple.eval_obj getter (etuple.py:52-81)
EvalObj(st, i, fail) ==
  IF Cached(st.heap[i]) THEN Return(st, st.heap[i].ev)
  ELSE Finish(Compute(st, i, fail), i)

----------------------------------------------------------------------------
\* etuple(), the eval_obj setter, slicing and concatenation

\* A variant of etuple that drops the eval_obj keyword.
EtupleNoSeed(args, kwargs, ev) == NewET(args \o kwargs)

\* etuple(*args, **kwargs) (etuple.py:128-145): eval_obj is popped from the
\* keywords, the remaining keywords become KwdPairs after the positional
\* arguments, and _eval_obj is assigned directly.
Etuple(args, kwargs, ev) == [NewET(args \o kwargs) EXCEPT !.ev = ev]

\* A variant that lets the assignment through.
SetterAssigns(h, i, v) == [heap |-> [h EXCEPT ![i].ev = v], exc |-> ""]

\* eval_obj.setter (etuple.py:83-85)
Setter(h, i, v) == [heap |-> h, exc |-> "ValueError"]

\* ExpressionTuple.__getitem__ with a slice key (etuple.py:87-95): a new
\* ExpressionTuple over the selected elements, orig_expr = self.
GetSlice(h, i, lo, hi) == [NewET(PySlice(h[i].elems, lo, hi)) EXCEPT !.orig = i]

\* Python == on tuples: same length and, element by element, the same object
\* or equal objects.  ExpressionTuple and KwdPair inherit it from tuple;
\* every other value of the model compares by identity.
RECURSIVE ValEq(_, _, _), SeqEq(_, _, _)

ValEq(h, a, b) ==
  \/ a = b
  \/ IsET(a) /\ IsET(b) /\ SeqEq(h, h[a.n].elems, h[b.n].elems)
  \/ IsKwdPair(a) /\ IsKwdPair(b) /\ a.name = b.name /\ ValEq(h, a.val[1], b.val[1])

SeqEq(h, xs, ys) ==
  /\ Len(xs) = Len(ys)
  /\ \A j \in 1..Len(xs) : ValEq(h, xs[j], ys[j])

\* A variant that compares res with the origin by identity ("is"); res is
\* a new object, so the comparison never succeeds.
EqualsOriginByIdentity(h, i, elems) == FALSE

\* res == getattr(self, "orig_expr", None) (etuple.py:99, 105)
EqualsOrigin(h, i, elems) == h[i].orig # 0 /\ SeqEq(h, elems, h[h[i].orig].elems)

\* The outcome of a concatenation: the origin itself, or the new tuple res.
\* (res is built in both cases; when the origin is returned res is garbage
\* and is not kept in the heap.)
Concatenated(h, i, elems) ==
  IF EqualsOrigin(h, i, elems)
  THEN [heap |-> h, ret |-> Ref(h[i].orig), new |-> FALSE]
  ELSE [heap |-> Append(h, NewET(elems)), ret |-> Ref(Len(h) + 1), new |-> TRUE]

\* ExpressionTuple.__add__(self, x) (etuple.py:97-101), x a tuple
Add(h, i, x) == Concatenated(h, i, h[i].elems \o x)

\* ExpressionTuple.__radd__(self, x) (etuple.py:103-107), x a tuple
RAdd(h, i, x) == Concatenated(h, i, x \o h[i].elems)

\* An operand of +: an ExpressionTuple of the heap (ref # 0) or a plain tuple.
ETOperand(h, i) == [ref |-> i, items |-> h[i].elems]
PlainOperand(items) == [ref |-> 0, items |-> items]

\* The expression a + b with at least one ExpressionTuple operand: Python
\* calls type(a).__add__ when a is an ExpressionTuple (the reflected method
\* of b is not tried, __add__ never returns NotImplemented), and
\* type(b).__radd__ when a is a plain tuple and b an ExpressionTuple.
PyAdd(h, a, b) ==
  IF a.ref # 0 THEN Add(h, a.ref, b.items) ELSE RAdd(h, b.ref, a.items)

----------------------------------------------------------------------------
\* Host objects and etuplize

\* The host objects, by what kanren's operator(x) and arguments(x) do on
\* them (etuple.py:8, 176-177):
\*   1  an empty list: operator raises IndexError
\*   2  an object of an unregistered type: NotImplementedError
\*   3  the list [1, 2]: its "operator" 1 is not callable
\*   4  [f, 1]
\*   5  [g, <4>, <1>, <3>]
\*   6  [f, <5>, <2>]
\*   7  an object with an operator whose arguments raise NotImplementedError
\*   8  [v, <ExpressionTuple heap[1]>, <4>]
Hosts == 1..8

HostFail(x) ==
  IF x.tag # "host" THEN "NotImplementedError"
  ELSE IF x.n = 1 THEN "IndexError"
  ELSE IF x.n \in {2, 7} THEN "NotImplementedError"
  ELSE ""

HostOperator(x) ==
  IF x.n = 3 THEN Leaf(1)
  ELSE IF x.n \in {4, 6, 7} THEN OpV("f")
  ELSE IF x.n = 5 THEN OpV("g")
  ELSE OpV("v")

HostArguments(x) ==
  IF x.n = 3 THEN <<Leaf(2)>>
  ELSE IF x.n = 4 THEN <<Leaf(1)>>
  ELSE IF x.n = 5 THEN <<Host(4), Host(1), Host(3)>>
  ELSE IF x.n = 6 THEN <<Host(5), Host(2)>>
  ELSE <<Ref(1), Host(4)>>

\* A variant that catches IndexError only.
CaughtIndexOnly == {"IndexError"}

\* etuple.py:173-179: the exceptions of operator/arguments that are caught
Caught == {"IndexError", "NotImplementedError"}

\* etuple.py:184: not callable(op)
NotAnExpression(op) == ~Callable(op)

RECURSIVE Etuplize(_, _, _), EtuplizeArgs(_, _)

\* etuple.py:190: tuple(etuplize(a) for a in args), left to right
EtuplizeArgs(h, xs) ==
  IF xs = <<>> THEN [heap |-> h, vals |-> <<>>, exc |-> ""]
  ELSE LET r == Etuplize(h, Head(xs), FALSE)
       IN IF r.exc # "" THEN [heap |-> r.heap, vals |-> <<>>, exc |-> r.exc]
          ELSE LET rest == EtuplizeArgs(r.heap, Tail(xs))
               IN [heap |-> rest.heap, vals |-> <<r.ret>> \o rest.vals, exc |-> rest.exc]

\* A variant that never recurses into the arguments.
EtArgsAlwaysShallow(h, args, shallow) == [heap |-> h, vals |-> args, exc |-> ""]

\* etuple.py:187-190
EtArgs(h, args, shallow) ==
  IF shallow THEN [heap |-> h, vals |-> args, exc |-> ""] ELSE EtuplizeArgs(h, args)

\* etuplize(x, shallow) (etuple.py:148-193)
Etuplize(h, x, shallow) ==
  IF IsET(x) THEN [heap |-> h, ret |-> x, exc |-> ""]
  ELSE IF HostFail(x) # ""
       THEN IF HostFail(x) \in Caught THEN [heap |-> h, ret |-> x, exc |-> ""]
            ELSE [heap |-> h, ret |-> None, exc |-> HostFail(x)]
  ELSE IF NotAnExpression(HostOperator(x)) THEN [heap |-> h, ret |-> x, exc |-> ""]
  ELSE LET a == EtArgs(h, HostArguments(x), shallow)
       IN IF a.exc # "" THEN [heap |-> a.heap, ret |-> None, exc |-> a.exc]
          ELSE [heap |-> Append(a.heap, Etuple(<<HostOperator(x)>> \o a.vals, <<>>, x)),
                ret |-> Ref(Len(a.heap) + 1), exc |-> ""]

----------------------------------------------------------------------------
\* History records

NoOperand == [ref |-> 0, items |-> <<>>]

\* by: the operation that created the object; src: the evaluation or object
\* it was created from; top: created for the argument of the call itself
\* (not for a nested argument); shallow: created by a shallow etuplize.
Made(by, src, top, sh) == [by |-> by, src |-> src, top |-> top, shallow |-> sh]

Last(op, self, x, ret, exc) ==
  [op |-> op, self |-> self, x |-> x, a |-> NoOperand, b |-> NoOperand,
   lo |-> 0, hi |-> 0, ret |-> ret, exc |-> exc]

Threads == {1, 2}

Init ==
  /\ heap = <<>>
  /\ made = <<>>
  /\ invoked = <<>>
  /\ calls = <<>>
  /\ last = Last("init", 0, None, None, "")
  /\ pc = [t \in Threads |-> "idle"]
  /\ tget = [t \in Threads |-> 0]
  /\ tval = [t \in Threads |-> Null]

Objects == 1..Len(heap)

RECURSIVE Sum(_)
Sum(q) == IF q = <<>> THEN 0 ELSE Head(q) + Sum(Tail(q))

\* The invocations that did not return: those entered minus those logged.
Raises(inv, c) == Sum(inv) - Len(c)

----------------------------------------------------------------------------
\* Sequential operations

\* res = etuple(*args, **kwargs, eval_obj=ev)
DoEtuple(args, kwargs, ev) ==
  /\ Len(heap) < MaxHeap
  /\ heap' = Append(heap, Etuple(args, kwargs, ev))
  /\ made' = Append(made, Made("etuple", ev, TRUE, FALSE))
  /\ invoked' = Append(invoked, 0)
  /\ last' = Last("etuple", 0, ev, Ref(Len(heap) + 1), "")
  /\ UNCHANGED <<calls, pc, tget, tval>>

\* A read of heap[i].eval_obj by a caller, start to finish.
Read(i, fail) ==
  LET r == EvalObj(St(heap, invoked, calls), i, fail)
  IN /\ Raises(r.inv, r.calls) <= MaxRaises
     /\ heap' = r.heap
     /\ invoked' = r.inv
     /\ calls' = r.calls
     /\ last' = Last("read", i, None, r.ret, r.exc)
     /\ UNCHANGED <<made, pc, tget, tval>>

\* heap[i].eval_obj = v
SetEvalObj(i, v) ==
  LET r == Setter(heap, i, v)
  IN /\ heap' = r.heap
     /\ last' = Last("set", i, v, None, r.exc)
     /\ UNCHANGED <<made, invoked, calls, pc, tget, tval>>

\* res = heap[i][lo:hi]
Slice(i, lo, hi) ==
  /\ Len(heap) < MaxHeap
  /\ heap' = Append(heap, GetSlice(heap, i, lo, hi))
  /\ made' = Append(made, Made("slice", Ref(i), TRUE, FALSE))
  /\ invoked' = Append(invoked, 0)
  /\ last' = [Last("slice", i, None, Ref(Len(heap) + 1), "") EXCEPT !.lo = lo, !.hi = hi]
  /\ UNCHANGED <<calls, pc, tget, tval>>

\* res = a + b.  A new tuple is kept while the heap has room; otherwise the
\* caller drops it at once (it is still an object of its own: its reference
\* is that of no object of the heap).  last.lo is the size of the heap before.
Concat(a, b) ==
  LET r == PyAdd(heap, a, b)
      kept == r.new /\ Len(heap) < MaxHeap
  IN /\ heap' = IF kept THEN r.heap ELSE heap
     /\ made' = IF kept THEN Append(made, Made("concat", None, TRUE, FALSE)) ELSE made
     /\ invoked' = IF kept THEN Append(invoked, 0) ELSE invoked
     /\ last' = [Last("concat", 0, None, r.ret, "")
                   EXCEPT !.a = a, !.b = b, !.lo = Len(heap), !.hi = Len(r.heap)]
     /\ UNCHANGED <<calls, pc, tget, tval>>

\* res = etuplize(x, shallow)
DoEtuplize(x, shallow) ==
  LET r == Etuplize(heap, x, shallow)
      k == Len(r.heap) - Len(heap)
  IN /\ Len(r.heap) <= MaxHeap
     /\ x = Host(8) => Len(heap) >= 1
     /\ heap' = r.heap
     /\ made' = made \o [j \in 1..k |->
                   Made("etuplize", IF j = k THEN x ELSE r.heap[Len(heap) + j].ev,
                        j = k, shallow /\ j = k)]
     /\ invoked' = invoked \o [j \in 1..k |-> 0]
     /\ last' = [Last(IF shallow THEN "etuplize_shallow" ELSE "etuplize", 0, x, r.ret, r.exc)
                   EXCEPT !.lo = Len(heap)]
     /\ UNCHANGED <<calls, pc, tget, tval>>

----------------------------------------------------------------------------
\* Two threads reading eval_obj of tuples concurrently.  A thread is
\* preempted between the cache check (etuple.py:59), the evaluation (62-76),
\* the store (80) and the re-read for the return (81).

\* line 59-60: a thread starts a read of heap[i].eval_obj
TCheck(t, i) ==
  /\ pc[t] = "idle"
  /\ IF Cached(heap[i])
     THEN /\ last' = [Last("read", i, None, heap[i].ev, "") EXCEPT !.lo = t]
          /\ UNCHANGED <<pc, tget, tval>>
     ELSE /\ pc' = [pc EXCEPT ![t] = "compute"]
          /\ tget' = [tget EXCEPT ![t] = i]
          /\ UNCHANGED <<last, tval>>
  /\ UNCHANGED <<heap, made, invoked, calls>>

\* lines 62-76
TCompute(t) ==
  /\ pc[t] = "compute"
  /\ LET r == Compute(St(heap, invoked, calls), tget[t], NoFail)
     IN /\ Raises(r.inv, r.calls) <= MaxRaises
        /\ heap' = r.heap
        /\ invoked' = r.inv
        /\ calls' = r.calls
        /\ IF r.exc # ""
           THEN /\ pc' = [pc EXCEPT ![t] = "idle"]
                /\ tget' = [tget EXCEPT ![t] = 0]
                /\ last' = [Last("read", tget[t], None, None, r.exc) EXCEPT !.lo = t]
                /\ UNCHANGED tval
           ELSE /\ pc' = [pc EXCEPT ![t] = "store"]
                /\ tval' = [tval EXCEPT ![t] = r.ret]
                /\ UNCHANGED <<tget, last>>
  /\ UNCHANGED made

\* line 80
TStore(t) ==
  /\ pc[t] = "store"
  /\ heap' = Store(heap, tget[t], tval[t])
  /\ pc' = [pc EXCEPT ![t] = "return"]
  /\ UNCHANGED <<made, invoked, calls, last, tget, tval>>

\* line 81
TReturn(t) ==
  /\ pc[t] = "return"
  /\ last' = [Last("read", tget[t], tval[t], heap[tget[t]].ev, "") EXCEPT !.lo = t]
  /\ pc' = [pc EXCEPT ![t] = "idle"]
  /\ tget' = [tget EXCEPT ![t] = 0]
  /\ tval' = [tval EXCEPT ![t] = Null]
  /\ UNCHANGED <<heap, made, invoked, calls>>

----------------------------------------------------------------------------
\* Inputs

Refs == {Ref(j) : j \in Objects}

Arg(args, kw) == [args |-> args, kw |-> kw]

\* Tuples with nested operands, a nested tuple possibly shared by several
\* parents; any of the operators may raise when it is invoked.
MemoMenu ==
  {Arg(<<OpV("f"), Leaf(1)>>, <<>>)}
  \cup {Arg(<<OpV("f"), r>>, <<>>) : r \in Refs}
  \cup {Arg(<<OpV("g"), Ref(j), Ref(Len(heap))>>, <<>>) : j \in Objects \ {Len(heap)}}

MemoEtuple == \E m \in MemoMenu : DoEtuple(m.args, m.kw, Null)

Fails == {NoFail} \cup {[at |-> j, exc |-> e] : j \in Objects, e \in OperatorExceptions}

\* A read of any tuple; an operator that raises is that of the tuple read or
\* of an older tuple (its operands are older) that holds no evaluation.
MemoRead ==
  \E i \in Objects, fail \in Fails :
     /\ fail.at # 0 => fail.at <= i /\ heap[fail.at].ev = Null
     /\ Read(i, fail)

NextMemo == MemoEtuple \/ MemoRead

SpecMemo == Init /\ [][NextMemo]_vars

\* Tuples with keyword operands, as etuple(*args, **kw): by keyword, as a
\* KwdPair ahead of a positional operand, a keyword the operator does not
\* take, a repeated keyword name, and nested tuples.
KwMenu ==
  {Arg(<<OpV("f"), Leaf(1)>>, <<KwdPair("kw", Leaf(2))>>),
   Arg(<<OpV("g"), Leaf(1)>>, <<KwdPair("kw", Leaf(2))>>),
   Arg(<<OpV("v"), KwdPair("kw", Leaf(2)), Leaf(1)>>, <<>>),
   Arg(<<OpV("f"), Leaf(1)>>, <<KwdPair("z", Leaf(2))>>),
   Arg(<<OpV("v"), KwdPair("kw", Leaf(1))>>, <<KwdPair("kw", Leaf(2))>>)}
  \cup {Arg(<<OpV("f"), Ref(j)>>, <<>>) : j \in {Len(heap)} \ {0}}
  \cup {Arg(<<OpV("g"), Leaf(1), Ref(j)>>, <<KwdPair("kw", Ref(j))>>) : j \in {Len(heap)} \ {0}}

KwEtuple == \E m \in KwMenu : DoEtuple(m.args, m.kw, Null)

KwRead == \E i \in Objects : Read(i, NoFail)

NextKw == KwEtuple \/ KwRead

SpecKw == Init /\ [][NextKw]_vars

\* Tuples that are sliced and concatenated, some built with an evaluation.
SeqMenu ==
  {[args |-> <<OpV("g"), Leaf(1)>>, ev |-> Null],
   [args |-> <<OpV("f")>>, ev |-> Leaf(7)]}

\* Each shape is built once.
SeqEtuple ==
  \E m \in SeqMenu :
     /\ \A i \in Objects : heap[i].elems # m.args
     /\ DoEtuple(m.args, <<>>, m.ev)

\* T[:k] and T[k:] for the tuples T that are not slices themselves
SeqSlice ==
  \E i \in {j \in Objects : heap[j].orig = 0} :
     \E k \in 0..Len(heap[i].elems) :
        \/ Slice(i, 0, k)
        \/ Slice(i, k, Len(heap[i].elems))

\* The operands of +: the tuples of the heap, and plain tuples holding the
\* elements of one of its slices; the result is no longer than the longest
\* tuple of the heap (a longer one equals no origin).
PlusOperands ==
  {ETOperand(heap, i) : i \in Objects}
  \cup {PlainOperand(heap[i].elems) : i \in {j \in Objects : heap[j].orig # 0}}

Longest == CHOOSE n \in {Len(heap[i].elems) : i \in Objects} :
              \A i \in Objects : Len(heap[i].elems) <= n

SeqConcat ==
  \E a \in PlusOperands, b \in PlusOperands :
     /\ a.ref # 0 \/ b.ref # 0
     /\ Len(a.items) + Len(b.items) <= Longest
     /\ Concat(a, b)

SeqRead == \E i \in Objects : Read(i, NoFail)

SeqSet == \E i \in Objects : SetEvalObj(i, Leaf(8))

NextSeq == SeqEtuple \/ SeqSlice \/ SeqConcat \/ SeqRead \/ SeqSet

SpecSeq == Init /\ [][NextSeq]_vars

\* Host objects decomposed in both modes; one tuple built by hand, which
\* host 8 holds among its arguments.
DecompEtuple == DoEtuple(<<OpV("g"), Leaf(1)>>, <<>>, Null)

DecompEtuplize ==
  \E x \in {Host(n) : n \in Hosts} \cup Refs \cup {Leaf(1)}, shallow \in BOOLEAN :
     DoEtuplize(x, shallow)

DecompRead == \E i \in Objects : Read(i, NoFail)

NextDecomp == DecompEtuple \/ DecompEtuplize \/ DecompRead

SpecDecomp == Init /\ [][NextDecomp]_vars

\* Two threads reading the eval_obj of tuples that have no evaluation yet.
ThreadsMenu ==
  {Arg(<<OpV("f"), Leaf(1)>>, <<>>)}
  \cup {Arg(<<OpV("g"), Ref(j)>>, <<>>) : j \in {Len(heap)} \ {0}}

\* Each shape is built once.
ThreadsEtuple ==
  \E m \in ThreadsMenu :
     /\ \A i \in Objects : heap[i].elems # m.args
     /\ DoEtuple(m.args, m.kw, Null)

ThreadsCheck == \E t \in Threads, i \in Objects : TCheck(t, i)

ThreadsCompute == \E t \in Threads : TCompute(t)

ThreadsStore == \E t \in Threads : TStore(t)

ThreadsReturn == \E t \in Threads : TReturn(t)

NextThreads ==
  ThreadsEtuple \/ ThreadsCheck \/ ThreadsCompute \/ ThreadsStore \/ ThreadsReturn

SpecThreads == Init /\ [][NextThreads]_vars

----------------------------------------------------------------------------
\* Properties of the decomposition (checked under SpecDecomp)

EtuplizeOps == {"etuplize", "etuplize_shallow"}

\* x is decomposable: operator(x) and arguments(x) succeed and the operator
\* is callable.
Decomposable(x) ==
  x.tag = "host" /\ HostFail(x) = "" /\ Callable(HostOperator(x))

\* x is a non-ExpressionTuple object that cannot be decomposed.
NonDecomposable(x) == ~IsET(x) /\ ~Decomposable(x)

\* C1 (round trip): when etuplize(x), shallow or deep, returns an
\* ExpressionTuple for a host object x, a read of its eval_obj returns x
\* itself and enters no operator - not the top-level one and not that of a
\* nested tuple: the invocation counts, the call log and every cache stay
\* as they were.  Stated for the read taken right after the decomposition
\* and for every read of such a tuple that the program makes later.
C1_RoundTrip ==
  [][/\ (last'.op \in EtuplizeOps /\ Decomposable(last'.x))
          => /\ last'.exc = "" /\ IsET(last'.ret)
             /\ LET r == EvalObj(St(heap', invoked', calls'), last'.ret.n, NoFail)
                IN r.exc = "" /\ r.ret = last'.x /\ r.inv = invoked'
                   /\ r.calls = calls' /\ r.heap = heap'
     /\ (last'.op = "read" /\ made[last'.self].by = "etuplize" /\ made[last'.self].top)
          => /\ last'.exc = "" /\ last'.ret = made[last'.self].src
             /\ invoked' = invoked /\ calls' = calls /\ heap' = heap]_vars

\* C1 witness: the tuple of the deep decomposition of host 8, which holds a
\* nested tuple that has no evaluation, has been read and returned host 8.
C1_Witness ==
  /\ last.op = "read" /\ last.ret = Host(8)
  /\ made[last.self].by = "etuplize" /\ ~made[last.self].shallow
  /\ heap[last.self].elems[2] = Ref(1) /\ heap[1].ev = Null

\* C6 (passthrough): etuplize of an object that is empty or unsupported, or
\* whose operator is not callable, returns that object, raises nothing and
\* builds nothing; in deep mode such an object among the arguments of a
\* decomposable object is the element of the resulting tuple at its
\* position, unchanged.
C6_Passthrough ==
  /\ (last.op \in EtuplizeOps /\ NonDecomposable(last.x))
       => last.ret = last.x /\ last.exc = "" /\ Len(heap) = last.lo
  /\ last.op \in EtuplizeOps => last.exc = ""
  /\ \A i \in Objects :
       (made[i].by = "etuplize" /\ ~made[i].shallow)
         => LET args == HostArguments(made[i].src)
            IN \A k \in 1..Len(args) :
                 NonDecomposable(args[k])
                   => Len(heap[i].elems) > k /\ heap[i].elems[k + 1] = args[k]

\* C6 witness: host 3 (operator not callable) was passed through, and the deep
\* tuple of host 5 holds the empty host 1 and host 3 as opaque leaves.
C6_Witness ==
  /\ last.op = "etuplize" /\ last.x = Host(3) /\ last.ret = Host(3)
  /\ \E i \in Objects :
       /\ made[i] = Made("etuplize", Host(5), TRUE, FALSE)
       /\ heap[i].elems[3] = Host(1) /\ heap[i].elems[4] = Host(3)

\* C8 (deep versus shallow): every tuple built by etuplize from x is
\* (operator(x), e1..en), pre-seeded with x; in shallow mode ek is the k-th
\* argument itself; in deep mode ek is the k-th argument itself if that
\* cannot be decomposed (or is already an ExpressionTuple) and is otherwise a
\* tuple built by a deep etuplize and pre-seeded with the k-th argument.  As
\* this holds of every tuple etuplize builds, it holds at every depth.
C8_DeepShallow ==
  \A i \in Objects :
    made[i].by = "etuplize"
      => LET x == made[i].src
             args == HostArguments(x)
             el == heap[i].elems
         IN /\ heap[i].ev = x
            /\ Len(el) = Len(args) + 1
            /\ el[1] = HostOperator(x)
            /\ \A k \in 1..Len(args) :
                 IF made[i].shallow \/ ~Decomposable(args[k])
                 THEN el[k + 1] = args[k]
                 ELSE /\ IsET(el[k + 1])
                      /\ el[k + 1].n < i
                      /\ made[el[k + 1].n].by = "etuplize"
                      /\ ~made[el[k + 1].n].shallow
                      /\ heap[el[k + 1].n].ev = args[k]

\* C8 witness: host 5 decomposed deep (its argument host 4 became a nested
\* tuple) and shallow (host 4 stayed as it is).
C8_Witness ==
  \E i \in Objects, j \in Objects :
    /\ made[i] = Made("etuplize", Host(5), TRUE, FALSE)
    /\ IsET(heap[i].elems[2]) /\ heap[heap[i].elems[2].n].ev = Host(4)
    /\ made[j] = Made("etuplize", Host(5), TRUE, TRUE)
    /\ heap[j].elems[2] = Host(4)

----------------------------------------------------------------------------
\* Properties of the lazy evaluation (checked under SpecMemo and SpecKw)

\* How often the operator of heap[i] was entered and returned.
NumReturned(c, i) == Cardinality({k \in 1..Len(c) : c[k].et = i})

\* The operator of heap[i] was entered in this step and raised.
RaisedAt(i) ==
  /\ invoked'[i] = invoked[i] + 1
  /\ NumReturned(calls', i) = NumReturned(calls, i)

\* C2 (memoization): over any sequence of reads, the operator of a tuple
\* built without an evaluation returns at most once, so a tuple whose
\* operator never raised had it entered at most once, whether the tuple is
\* read directly or as an operand of several parents; a read that succeeds
\* returns the cached object, and a cached object is never replaced, so every
\* later read returns the object the first read returned.
C2_Memoization ==
  [][/\ \A i \in 1..Len(heap') :
          /\ NumReturned(calls', i) <= 1
          /\ invoked'[i] = NumReturned(calls', i) => invoked'[i] <= 1
     /\ (last'.op = "read" /\ last'.exc = "")
          => /\ last'.ret = heap'[last'.self].ev
             /\ last'.ret # Null
     /\ \A i \in Objects :
          heap[i].ev # Null
            => heap'[i].ev = heap[i].ev /\ invoked'[i] = invoked[i]]_vars

\* C2 witness: a tuple that is an operand of two parents; both parents were
\* read, and its operator was entered once.
C2_Witness ==
  \E a \in Objects, b \in Objects, c \in Objects :
    /\ b # c
    /\ heap[b].elems[2] = Ref(a) /\ heap[c].elems[2] = Ref(a)
    /\ heap[b].ev # Null /\ heap[c].ev # Null
    /\ invoked[a] = 1 /\ invoked[b] = 1 /\ invoked[c] = 1
    /\ last.op = "read"

\* C10 (failed evaluation), as claimed: when the operator of a tuple raises
\* during a read, the read raises (the exception reaches the caller) and the
\* tuple's cache stays unset; a later read of a tuple whose operator raised
\* before and whose cache is still unset, in which no operator raises, enters
\* the tuple's operator again; tuples that hold a cached value keep it and
\* their operators are not entered again.
C10_FailedEvaluation ==
  [][/\ \A i \in Objects :
          /\ RaisedAt(i) => last'.op = "read" /\ last'.exc # "" /\ heap'[i].ev = Null
          /\ heap[i].ev # Null => heap'[i].ev = heap[i].ev /\ invoked'[i] = invoked[i]
     /\ (/\ last'.op = "read"
         /\ invoked[last'.self] > NumReturned(calls, last'.self)
         /\ heap[last'.self].ev = Null
         /\ \A j \in Objects : ~RaisedAt(j))
          => /\ invoked'[last'.self] = invoked[last'.self] + 1
             /\ last'.exc = ""
             /\ heap'[last'.self].ev = last'.ret]_vars

\* The evaluation of an operand, as the claim describes it: a nested tuple
\* and a keyword pair are replaced by their evaluation, anything else is
\* used as it is.
Evaluated(e) ==
  IF IsET(e) THEN heap[e.n].ev
  ELSE IF IsKwdPair(e)
       THEN KwdPair(e.name, IF IsET(e.val[1]) THEN heap[e.val[1].n].ev ELSE e.val[1])
  ELSE e

EvaluatedOperands(i) ==
  [k \in 1..(Len(heap[i].elems) - 1) |-> Evaluated(heap[i].elems[k + 1])]

DistinctKwNames(vals) ==
  \A j \in 1..Len(vals), k \in 1..Len(vals) :
     (j # k /\ IsKwdPair(vals[j]) /\ IsKwdPair(vals[k])) => vals[j].name # vals[k].name

\* What op receives from the direct call the claim names: op(a.., kw=v..)
\* when its signature is inspectable, op(a.., v..) otherwise.
DirectCall(s, vals) ==
  LET pos == SelectSeq(vals, LAMBDA x : ~IsKwdPair(x))
      kws == SelectSeq(vals, IsKwdPair)
      b == IF Inspectable(s)
           THEN PyBind(Signature(s), pos, kws, TRUE)
           ELSE PyBind(Signature(s), pos \o [j \in 1..Len(kws) |-> kws[j].val[1]], <<>>, TRUE)
  IN [bound |-> b.bound, extra |-> b.extra, kwextra |-> b.kwextra]

\* C5 (lazy evaluation result): the cached evaluation of a tuple (op, e1..en)
\* built without an evaluation is the object returned by one invocation of
\* op, and what op received in that invocation is what it receives from the
\* direct call on the evaluated operands: non-keyword operands positionally
\* in their order, keyword operands by name when op is inspectable and as
\* trailing positional values otherwise.  (Tuples in which two keyword
\* operands carry the same name are left out: the direct call does not exist.)
C5_LazyResult ==
  /\ \A k \in 1..Len(calls) :
       LET i == calls[k].et
       IN /\ heap[i].ev = Obj(k)
          /\ calls[k].op = heap[i].elems[1].name
          /\ \A j \in 1..Len(heap[i].elems) :
               IsET(heap[i].elems[j]) => heap[heap[i].elems[j].n].ev # Null
          /\ DistinctKwNames(heap[i].elems)
               => calls[k].recv = DirectCall(calls[k].op, EvaluatedOperands(i))
  /\ \A i \in Objects :
       (heap[i].ev # Null /\ made[i].src = Null) => \E k \in 1..Len(calls) : calls[k].et = i
  /\ (last.op = "read" /\ last.exc = "") => last.ret = heap[last.self].ev

\* C5 witness: f(1, kw=2) was called by keyword, the builtin g was called as
\* g(1, 2), and a tuple with a nested operand was evaluated on the nested
\* tuple's evaluation.
C5_Witness ==
  \E k1 \in 1..Len(calls), k2 \in 1..Len(calls), k3 \in 1..Len(calls) :
    /\ calls[k1].op = "f" /\ calls[k1].recv.bound = <<Leaf(1), Leaf(2)>>
    /\ heap[calls[k1].et].elems = <<OpV("f"), Leaf(1), KwdPair("kw", Leaf(2))>>
    /\ calls[k2].op = "g" /\ calls[k2].recv.extra = <<Leaf(1), Leaf(2)>>
    /\ heap[calls[k2].et].elems = <<OpV("g"), Leaf(1), KwdPair("kw", Leaf(2))>>
    /\ calls[k3].op = "f" /\ calls[k3].recv.bound = <<Obj(k1), DefaultOf("kw")>>
    /\ heap[calls[k3].et].elems = <<OpV("f"), Ref(calls[k1].et)>>

----------------------------------------------------------------------------
\* Properties of slicing, concatenation and the setter (checked under SpecSeq)

\* T[:k] and T[k:] as the claim describes them
Prefix(elems, k) == SubSeq(elems, 1, k)
Suffix(elems, k) == SubSeq(elems, k + 1, Len(elems))

\* C3 (slice/concat identity): a slice T[lo:hi] is a new ExpressionTuple over
\* the selected elements whose origin is T, and T is left as it was; and for
\* every split index k, 0 <= k <= len(T), the concatenation S + R of the
\* slices S = T[:k] and R = T[k:] returns T itself, so that the evaluation
\* seen through the result is T's.
C3_SliceConcat ==
  [][/\ last'.op = "slice"
          => /\ Len(heap') = Len(heap) + 1
             /\ SubSeq(heap', 1, Len(heap)) = heap
             /\ last'.ret = Ref(Len(heap'))
             /\ heap'[Len(heap')].orig = last'.self
             /\ heap'[Len(heap')].elems
                  = SubSeq(heap[last'.self].elems, last'.lo + 1, last'.hi)
     /\ (last'.op = "concat" /\ last'.a.ref # 0 /\ last'.b.ref # 0)
          => LET S == heap[last'.a.ref]
                 R == heap[last'.b.ref]
             IN (/\ S.orig # 0 /\ R.orig = S.orig
                 /\ \E k \in 0..Len(heap[S.orig].elems) :
                      /\ S.elems = Prefix(heap[S.orig].elems, k)
                      /\ R.elems = Suffix(heap[S.orig].elems, k))
                  => /\ last'.ret = Ref(S.orig)
                     /\ last'.hi = last'.lo
                     /\ heap' = heap]_vars

\* C3 witness: T = (g, 1) holds a cached evaluation, and T[:1] + T[1:] has
\* just returned T.
C3_Witness ==
  /\ last.op = "concat" /\ last.a.ref # 0 /\ last.b.ref # 0
  /\ heap[last.a.ref].orig = last.ret.n /\ heap[last.b.ref].orig = last.ret.n
  /\ Len(last.a.items) = 1 /\ Len(last.b.items) = 1
  /\ heap[last.ret.n].elems = <<OpV("g"), Leaf(1)>>
  /\ heap[last.ret.n].ev = Obj(1)

OriginOf(operand) == IF operand.ref # 0 THEN heap[operand.ref].orig ELSE 0

MatchesOrigin(operand, elems) ==
  OriginOf(operand) # 0 /\ SeqEq(heap, elems, heap[OriginOf(operand)].elems)

\* C4 (short-circuit for either operand), as claimed: when a + b is
\* structurally equal to the origin of a or to the origin of b, the result is
\* that origin itself; otherwise it is a freshly built tuple.
C4_EitherOperand ==
  last.op = "concat"
    => LET res == last.a.items \o last.b.items
       IN IF MatchesOrigin(last.a, res) \/ MatchesOrigin(last.b, res)
          THEN \/ MatchesOrigin(last.a, res) /\ last.ret = Ref(OriginOf(last.a))
               \/ MatchesOrigin(last.b, res) /\ last.ret = Ref(OriginOf(last.b))
          ELSE /\ last.ret = Ref(last.lo + 1)
               /\ last.hi = last.lo + 1
               /\ Len(heap) > last.lo => heap[Len(heap)] = NewET(res)

\* C7 (write-once evaluation): an assignment to eval_obj raises ValueError
\* and changes neither a cache nor an element, whatever the cache holds; and
\* no operation - read, slice, concatenation, assignment, construction -
\* changes a cached value that is set, or the elements of a tuple.
C7_WriteOnce ==
  [][/\ last'.op = "set" => last'.exc = "ValueError" /\ heap' = heap
     /\ \A i \in Objects :
          /\ heap'[i].elems = heap[i].elems
          /\ heap[i].ev # Null => heap'[i].ev = heap[i].ev]_vars

\* C7 witness: the heap holds a tuple without evaluation, one pre-seeded at
\* construction and one filled by a read, and the assignment to the last one
\* raised.
C7_Witness ==
  /\ last.op = "set" /\ last.exc = "ValueError"
  /\ heap[last.self].ev = Obj(1) /\ made[last.self].src = Null
  /\ \E j \in Objects : heap[j].ev = Leaf(7) /\ made[j].src = Leaf(7)
  /\ \E j \in Objects : heap[j].ev = Null

----------------------------------------------------------------------------
\* Property of concurrent reads (checked under SpecThreads)

\* C9 (first writer wins), as claimed: once a thread has stored a value in
\* the cache of a tuple, no later store of another thread replaces it.
C9_FirstWriterWins ==
  [][\A i \in Objects : heap[i].ev # Null => heap'[i].ev = heap[i].ev]_vars

====
